---- MODULE Spec2Model ----
(***************************************************************************)
(* A model of the Snapchat downloader bot: the per-user rate limiter of    *)
(* telegram_bot.py, the page extraction and the media fetch of             *)
(* snapchat_downloader.py, and the delivery loop of handle_message.        *)
(*                                                                         *)
(* Time is the reading of datetime.now().timestamp(), in whole seconds.    *)
(* Every read of the clock finds it advanced by some d in Deltas since the *)
(* previous read (the clock is taken to be monotone).                      *)
(***************************************************************************)
EXTENDS Integers, Sequences, FiniteSets, TLC

\* ------------------------------------------------------------------ bounds

\* Largest clock reading explored.
MaxTime == 122

\* Largest per-minute ceiling the configuration is given in Init.
MaxLimit == 2

\* Largest number of is_allowed calls recorded per run (over all users).
MaxCalls == 4

\* Largest number of handlers of one user suspended at an await at once.
MaxInflight == 2

\* ------------------------------------------------------- program constants

\* telegram_bot.py:39 "if current_time - t < 60" (also :57 and :64).
WINDOW == 60

\* ------------------------------------------------------------------- state

VARIABLES
  now,                 \* last reading of datetime.now().timestamp()
  REQUESTS_PER_MINUTE, \* config.REQUESTS_PER_MINUTE
  ADMIN_IDS,           \* config.ADMIN_IDS (empty: everyone is authorized)
  user_requests,       \* RateLimiter.user_requests: user id -> list of instants
  inflight,            \* per user: handlers suspended at an await
  calls,               \* history: per user, the is_allowed calls made, [t, ok]
  ret                  \* what the last operation returned / replied

rlVars == <<now, REQUESTS_PER_MINUTE, ADMIN_IDS, user_requests, inflight, calls, ret>>

VARIABLES
  page,                \* what the GET of the story page brings back
  fetch_pc,            \* fetch_public_content: "called", "returned" or "raised"
  media_items          \* the list fetch_public_content returns

exVars == <<page, fetch_pc, media_items>>

VARIABLES
  files,               \* config.TEMP_DIR: path -> size in bytes
  dl,                  \* the download_media call in hand: arguments and result
  effective_user,      \* update.effective_user.id of the delivery
  pc,                  \* where handle_message stands after the rate check
  idx,                 \* the loop variable of "for idx, item in enumerate(...)"
  success_count,       \* handle_message's success_count
  summary,             \* the counts of the final status message
  relayed,             \* history: the items (1-based) whose relay succeeded
  served               \* history: per attempted item, was the outside world healthy

dvVars == <<files, dl, effective_user, pc, idx, success_count, summary, relayed, served>>

VARIABLES
  deliveries,          \* the handle_message calls in flight, one record each
  shutdown_event,      \* ReplitBotRunner.shutdown_event is set
  runner_pc            \* ReplitBotRunner.main: "running" or "complete"

prVars == <<deliveries, shutdown_event, runner_pc>>

VARIABLES
  text,                \* update.message.text.strip() of the request followed
  username,            \* what extract_username_from_url made of it
  steps                \* history: the steps the handlers have taken, in order

rqVars == <<text, username, steps>>

vars == <<rlVars, exVars, dvVars, prVars, rqVars>>

\* ------------------------------------------------------------ input domains

\* Telegram user ids.
Users == {1, 2}

\* Seconds elapsed since the previous read of the clock when a handler starts.
Deltas == {0, 59, 60}

\* Seconds elapsed between the two reads of the clock inside one handler.
ReadDeltas == {0, 1}

\* The state of the parts that are not running.
NoDownload == [pc |-> "idle"]
NoSummary == [found |-> 0, succeeded |-> 0, failed |-> 0]

ProcessIdle ==
  deliveries = <<>> /\ shutdown_event = FALSE /\ runner_pc = "running"

NotParsed == [k |-> "notparsed"]

RequestIdle == text = <<>> /\ username = NotParsed /\ steps = <<>>

DeliveryIdle ==
  /\ files = <<>> /\ dl = NoDownload /\ effective_user = 0 /\ pc = "idle" /\ idx = 0
  /\ success_count = 0 /\ summary = NoSummary /\ relayed = {} /\ served = <<>>

\* ------------------------------------------------------------- RateLimiter

Max(a, b) == IF a >= b THEN a ELSE b

RECURSIVE SeqMin(_)
SeqMin(s) ==
  IF Len(s) = 1 THEN s[1]
  ELSE LET m == SeqMin(Tail(s)) IN IF s[1] <= m THEN s[1] ELSE m

\* Mutant of in_window: an instant aged exactly one minute is kept.
in_window_inclusive(t, current_time) == current_time - t <= WINDOW

\* The filter of both list comprehensions: "if current_time - t < 60".
in_window(t, current_time) == current_time - t < WINDOW

\* Mutant of purge: the list is left as it is.
purge_nothing(requests, current_time) == requests

\* [t for t in self.user_requests[user_id] if current_time - t < 60]
purge(requests, current_time) ==
  SelectSeq(requests, LAMBDA t : in_window(t, current_time))

\* Mutant of at_limit: one request too many passes.
at_limit_strict(requests, limit) == Len(requests) > limit

\* len(self.user_requests[user_id]) >= config.REQUESTS_PER_MINUTE
at_limit(requests, limit) == Len(requests) >= limit

\* Mutant of is_allowed: a rejected request is recorded too.
is_allowed_records_rejection(reqs, user_id, current_time, limit) ==
  LET old   == IF user_id \in DOMAIN reqs THEN reqs[user_id] ELSE <<>>
      valid == purge(old, current_time)
  IN  [ok   |-> ~at_limit(valid, limit),
       reqs |-> (user_id :> Append(valid, current_time)) @@ reqs]

\* Mutant of is_allowed: one window is kept for all the users on record.
is_allowed_shared_window(reqs, user_id, current_time, limit) ==
  LET old   == IF user_id \in DOMAIN reqs THEN reqs[user_id] ELSE <<>>
      valid == purge(old, current_time)
      new   == IF at_limit(valid, limit) THEN valid ELSE Append(valid, current_time)
  IN  [ok   |-> ~at_limit(valid, limit),
       reqs |-> [w \in (DOMAIN reqs) \cup {user_id} |-> new]]

\* RateLimiter.is_allowed, as a function of the dictionary, the user, the clock
\* reading and the configured ceiling: the result and the dictionary after.
is_allowed(reqs, user_id, current_time, limit) ==
  LET old   == IF user_id \in DOMAIN reqs THEN reqs[user_id] ELSE <<>>
      valid == purge(old, current_time)
  IN  IF at_limit(valid, limit)
        THEN [ok |-> FALSE, reqs |-> (user_id :> valid) @@ reqs]
        ELSE [ok |-> TRUE,
              reqs |-> (user_id :> Append(valid, current_time)) @@ reqs]

\* RateLimiter.get_wait_time: reads the dictionary, never writes it.
get_wait_time(reqs, user_id, current_time) ==
  IF user_id \notin DOMAIN reqs THEN 0
  ELSE LET valid_requests == purge(reqs[user_id], current_time)
       IN  IF valid_requests = <<>> THEN 0
           ELSE Max(0, WINDOW - (current_time - SeqMin(valid_requests)))

\* "config.ADMIN_IDS and user_id not in config.ADMIN_IDS"
unauthorized(user_id) == ADMIN_IDS # {} /\ user_id \notin ADMIN_IDS

TotalCalls == LET n[S \in SUBSET Users] ==
                    IF S = {} THEN 0
                    ELSE LET u == CHOOSE x \in S : TRUE
                         IN  Len(calls[u]) + n[S \ {u}]
              IN  n[Users]

\* ----------------------------------------------------------------- actions

\* handle_message up to its first await (telegram_bot.py:227-245): the
\* authorization check, is_allowed and, on rejection, get_wait_time run with
\* no await between them, so no other handler runs in between; the clock is
\* read once in is_allowed (after d1) and again in get_wait_time (after d2).
handle_message(user_id, d1, d2) ==
  /\ inflight[user_id] < MaxInflight
  /\ now + d1 + d2 <= MaxTime
  /\ inflight' = [inflight EXCEPT ![user_id] = @ + 1]
  /\ UNCHANGED <<REQUESTS_PER_MINUTE, ADMIN_IDS>>
  /\ IF unauthorized(user_id)
       THEN /\ d1 = 0 /\ d2 = 0
            /\ ret' = [op |-> "handle_message", user |-> user_id,
                       outcome |-> "unauthorized", t |-> now, wait |-> 0]
            /\ UNCHANGED <<now, user_requests, calls>>
       ELSE /\ TotalCalls < MaxCalls
            /\ LET t1 == now + d1
                   r  == is_allowed(user_requests, user_id, t1, REQUESTS_PER_MINUTE)
               IN  /\ user_requests' = r.reqs
                   /\ calls' = [calls EXCEPT ![user_id] =
                                  Append(@, [t |-> t1, ok |-> r.ok])]
                   /\ IF r.ok
                        THEN /\ d2 = 0
                             /\ now' = t1
                             /\ ret' = [op |-> "handle_message", user |-> user_id,
                                        outcome |-> "admitted", t |-> t1, wait |-> 0]
                        ELSE /\ now' = t1 + d2
                             /\ ret' = [op |-> "handle_message", user |-> user_id,
                                        outcome |-> "rate_limited", t |-> t1,
                                        wait |-> get_wait_time(r.reqs, user_id, t1 + d2)]

\* stats_command (telegram_bot.py:187-209): reports get_wait_time to the user.
stats_command(user_id, d) ==
  /\ now + d <= MaxTime
  /\ now' = now + d
  /\ ret' = [op |-> "stats_command", user |-> user_id, outcome |-> "stats",
             t |-> now + d, wait |-> get_wait_time(user_requests, user_id, now + d)]
  /\ UNCHANGED <<REQUESTS_PER_MINUTE, ADMIN_IDS, user_requests, inflight, calls>>

\* A suspended handler of the user runs to its end; the rest of handle_message
\* does not touch the rate limiter.
handler_returns(user_id) ==
  /\ inflight[user_id] > 0
  /\ inflight' = [inflight EXCEPT ![user_id] = @ - 1]
  /\ ret' = [op |-> "return", user |-> user_id, outcome |-> "done",
             t |-> now, wait |-> 0]
  /\ UNCHANGED <<now, REQUESTS_PER_MINUTE, ADMIN_IDS, user_requests, calls>>

\* -------------------------------------------------- rate limiter: the system

\* RateLimiter.__init__ (empty dictionary) under a configuration.
InitLimiter ==
  /\ now = 0
  /\ REQUESTS_PER_MINUTE \in 1..MaxLimit
  /\ ADMIN_IDS \in {{}, {1}}
  /\ user_requests = <<>>
  /\ inflight = [u \in Users |-> 0]
  /\ calls = [u \in Users |-> <<>>]
  /\ ret = [op |-> "init", user |-> 0, outcome |-> "none", t |-> 0, wait |-> 0]
  /\ page = [resp |-> "none"] /\ fetch_pc = "idle" /\ media_items = <<>>
  /\ DeliveryIdle
  /\ ProcessIdle
  /\ RequestIdle

NextLimiter ==
  \/ \E u \in Users, d1 \in Deltas, d2 \in ReadDeltas :
       handle_message(u, d1, d2) /\ UNCHANGED <<exVars, dvVars, prVars, rqVars>>
  \/ \E u \in Users, d \in Deltas : stats_command(u, d) /\ UNCHANGED <<exVars, dvVars, prVars, rqVars>>
  \/ \E u \in Users : handler_returns(u) /\ UNCHANGED <<exVars, dvVars, prVars, rqVars>>

SpecLimiter == InitLimiter /\ [][NextLimiter]_vars

\* ------------------------------------------------- rate limiter: the claims

\* The instants of s that are less than 60 seconds before t, spelled out.
AgedUnder60(s, t) == SelectSeq(s, LAMBDA x : t - x < 60)

WindowOf(reqs, u) == IF u \in DOMAIN reqs THEN reqs[u] ELSE <<>>

\* Call i of user u opens a fresh span: no request of u was admitted in the
\* 60 seconds before it.
FreshAt(u, i) ==
  \A k \in 1..(i - 1) : calls[u][k].ok => calls[u][i].t - calls[u][k].t >= 60

\* C1: for every user and every configured limit L, counting from a call that
\* opens a fresh span, the calls made less than 60 seconds after it are
\* admitted while fewer than L precede them in the span, and the (L+1)-th of
\* the span is rejected.
C1_FirstLAdmittedNextRejected ==
  \A u \in Users : \A i, j \in 1..Len(calls[u]) :
    (i <= j /\ FreshAt(u, i) /\ calls[u][j].t - calls[u][i].t < 60) =>
      /\ (j - i < REQUESTS_PER_MINUTE => calls[u][j].ok)
      /\ (j - i = REQUESTS_PER_MINUTE => ~calls[u][j].ok)

\* Reached: a user's first L calls were admitted and the (L+1)-th, 59 seconds
\* after the first, was rejected.
C1_Witness ==
  \E u \in Users :
    /\ REQUESTS_PER_MINUTE = 2
    /\ Len(calls[u]) = 3
    /\ calls[u][1].ok /\ calls[u][2].ok /\ ~calls[u][3].ok
    /\ calls[u][3].t - calls[u][1].t = 59

\* C2: whenever handle_message found is_allowed false, the wait time it then
\* obtained from get_wait_time is greater than 0 and at most 60.
C2_WaitPositiveAfterRejection ==
  ret.outcome = "rate_limited" => (ret.wait > 0 /\ ret.wait <= 60)

\* C3: a user whose request was rejected and whose next request comes 60
\* seconds or more later is admitted on that next request.
C3_AdmittedAfterAMinuteOfSilence ==
  \A u \in Users : \A k \in 1..(Len(calls[u]) - 1) :
    (~calls[u][k].ok /\ calls[u][k + 1].t - calls[u][k].t >= 60)
      => calls[u][k + 1].ok

\* Reached: a rejection followed, exactly 60 seconds later, by the same
\* user's next request.
C3_Witness ==
  \E u \in Users : \E k \in 1..(Len(calls[u]) - 1) :
    /\ ~calls[u][k].ok
    /\ calls[u][k + 1].t - calls[u][k].t = 60
    /\ calls[u][k + 1].ok

\* The number of the user's recorded instants less than 60 seconds old.
ValidCount(u) == Len(AgedUnder60(WindowOf(user_requests, u), now))

\* C4: get_wait_time returns 0 whenever the user has no history or fewer than
\* the configured limit of instants in the trailing 60 seconds; it is non-zero
\* only at the limit.  (After a get_wait_time call the dictionary and the
\* clock reading are the ones the call saw.)
C4_WaitZeroUnderLimit ==
  ret.outcome \in {"stats", "rate_limited"} =>
    (ValidCount(ret.user) < REQUESTS_PER_MINUTE => ret.wait = 0)

\* The step is an is_allowed call of user u.
IsAllowedStep(u) == Len(calls'[u]) = Len(calls[u]) + 1

\* C5: an is_allowed call that returns false leaves the user's window as it
\* was but for the purged instants; one that returns true leaves it as it was
\* but for the purged instants and the current instant appended; no other
\* user's window changes.
C5_RejectionRecordsNothing ==
  [][\A u \in Users : IsAllowedStep(u) =>
       LET c    == calls'[u][Len(calls'[u])]
           kept == AgedUnder60(WindowOf(user_requests, u), c.t)
       IN  /\ u \in DOMAIN user_requests'
           /\ ~c.ok => user_requests'[u] = kept
           /\ c.ok  => user_requests'[u] = Append(kept, c.t)
           /\ \A v \in Users \ {u} :
                /\ v \in DOMAIN user_requests' <=> v \in DOMAIN user_requests
                /\ WindowOf(user_requests', v) = WindowOf(user_requests, v)
    ]_vars

\* Reached: a call of a user is rejected at a full window, after an earlier
\* admitted call of the same user had an expired instant purged, while the
\* other user holds instants.
C5_Witness ==
  \E u \in Users : \E v \in Users \ {u} :
    /\ ret.outcome = "rate_limited" /\ ret.user = u
    /\ Len(user_requests[u]) = REQUESTS_PER_MINUTE
    /\ Cardinality({k \in 1..Len(calls[u]) : calls[u][k].ok}) > Len(user_requests[u])
    /\ WindowOf(user_requests, v) # <<>>

\* The admitted calls of user u up to call j that are less than 60 seconds
\* before call j (call j included).
AdmittedInWindow(u, j) ==
  {k \in 1..j : calls[u][k].ok /\ calls[u][j].t - calls[u][k].t < 60}

\* C6: with handlers of one user suspended while others of the same user run
\* their check, no 60-second window holds more admitted requests of a user
\* than the limit, and no user's list holds more instants than the limit.
C6_NeverOverLimit ==
  \A u \in Users :
    /\ Len(WindowOf(user_requests, u)) <= REQUESTS_PER_MINUTE
    /\ \A j \in 1..Len(calls[u]) :
         calls[u][j].ok => Cardinality(AdmittedInWindow(u, j)) <= REQUESTS_PER_MINUTE

\* Reached: a request of a user is rejected at a full window while two
\* handlers of that user are suspended (the rejected one and an admitted one).
C6_Witness ==
  \E u \in Users :
    /\ inflight[u] = 2
    /\ ret.outcome = "rate_limited" /\ ret.user = u
    /\ Len(user_requests[u]) = REQUESTS_PER_MINUTE


\* =========================================================================
\* Page extraction (snapchat_downloader.py:19-186)
\* =========================================================================

\* Python values as they come out of json.loads, re.findall and dict.get.
\* A string is known by the shape the code tests ("form") and a number that
\* tells strings of one shape apart (for a description: its length).
\*   "https", "http"  begins with that scheme
\*   "httpword"       begins with "http" but with no scheme ("httpfoo")
\*   "embedded"       does not begin with "http" but holds "http://" inside
\*   "relative"       holds no scheme at all
\*   "empty"          the empty string
Str(form, n) == [k |-> "str", form |-> form, n |-> n]

Num == [k |-> "num"]                       \* a non-zero number
None == [k |-> "none"]                     \* JSON null
Missing == [k |-> "missing"]               \* (of a key) not in the dict
SchemeList == [k |-> "strlist"]            \* the JSON list ["https://"]
JList(items) == [k |-> "list", items |-> items]
JDict(items) == [k |-> "dict", items |-> items]   \* items: <<[key, val], ...>>
KV(key, val) == [key |-> key, val |-> val]

\* dict.get(key, default), given the value under the key or Missing.
get(value, default) == IF value = Missing THEN default ELSE value

\* A JSON-LD entity: the five keys _parse_json_item reads.
LdItem(atype, contentUrl, url, description) ==
  [k |-> "lditem", atype |-> atype, contentUrl |-> contentUrl, url |-> url,
   thumbnailUrl |-> Missing, description |-> description]

\* bool(v)
truthy(v) ==
  CASE v.k \in {"none", "missing"} -> FALSE
    [] v.k = "str"  -> v.form # "empty"
    [] OTHER        -> TRUE

\* a or b
py_or(a, b) == IF truthy(a) THEN a ELSE b

\* 'http://' in url or 'https://' in url: a substring test on a string, a
\* membership test on a list, a TypeError on a number.
contains_scheme(url) ==
  CASE url.k = "str"     -> [raised |-> FALSE,
                             val |-> url.form \in {"https", "http", "embedded"}]
    [] url.k = "strlist" -> [raised |-> FALSE, val |-> TRUE]
    [] OTHER             -> [raised |-> TRUE, val |-> FALSE]

\* value.startswith('http')
startswith_http(value) == value.form \in {"https", "http", "httpword"}

\* hash(v) succeeds: only then can v enter a set.
hashable(v) == v.k \in {"str", "num", "none"}

\* s[:n]
Prefix(s, n) == SubSeq(s, 1, IF Len(s) < n THEN Len(s) ELSE n)

\* str.lower() of an '@type' string.
lower(t) ==
  CASE t.form = "VideoObject" -> "videoobject"
    [] t.form = "ImageObject" -> "imageobject"
    [] t.form = "Person"      -> "person"
    [] OTHER                  -> ""

\* _parse_json_item (snapchat_downloader.py:92-104): the list after the call,
\* and whether the call raised (AttributeError or TypeError).
parse_json_item(item, items_list) ==
  LET fail   == [raised |-> TRUE, items |-> items_list]
      nothing == [raised |-> FALSE, items |-> items_list]
  IN
  IF item.k # "lditem" THEN fail                       \* no .get on it
  ELSE LET t == get(item.atype, Str("empty", 0)) IN
       IF t.k # "str" THEN fail                        \* no .lower on it
       ELSE LET item_type == lower(t) IN
         IF item_type \notin {"videoobject", "imageobject"} THEN nothing
         ELSE LET url == py_or(get(item.contentUrl, None), get(item.url, None))
                  description == get(item.description, Str("empty", 0))
              IN
           IF ~truthy(url) THEN nothing
           ELSE LET c == contains_scheme(url) IN
             IF c.raised THEN fail
             ELSE IF ~c.val THEN nothing
             ELSE IF description.k # "str" THEN fail            \* no [:100] on it
             ELSE [raised |-> FALSE,
                   items |-> Append(items_list,
                     [url |-> url,
                      type |-> IF item_type = "videoobject" THEN "video" ELSE "image",
                      thumbnail |-> get(item.thumbnailUrl, None),
                      description |->
                        Str(description.form,
                            IF description.n > 100 THEN 100 ELSE description.n)])]

\* "for item in data: self._parse_json_item(item, items)"
RECURSIVE parse_json_list(_, _)
parse_json_list(data, items) ==
  IF data = <<>> THEN [raised |-> FALSE, items |-> items]
  ELSE LET r == parse_json_item(Head(data), items)
       IN  IF r.raised THEN r ELSE parse_json_list(Tail(data), r.items)

\* The loop of _extract_json_ld over the script tags (lines 78-89): a
\* JSONDecodeError skips the tag, any other exception ends the loop with the
\* items found so far ("except Exception: pass").
RECURSIVE ld_loop(_, _)
ld_loop(script_tags, items) ==
  IF script_tags = <<>> THEN items
  ELSE LET script == Head(script_tags) IN
    CASE script.b = "nostring"  -> items       \* json.loads(None): TypeError
      [] script.b = "malformed" -> ld_loop(Tail(script_tags), items)
      [] script.b = "json" ->
           LET r == IF script.data.k = "list"
                      THEN parse_json_list(script.data.items, items)
                    ELSE IF script.data.k = "lditem"
                      THEN parse_json_item(script.data, items)
                    ELSE [raised |-> FALSE, items |-> items]
           IN  IF r.raised THEN r.items ELSE ld_loop(Tail(script_tags), r.items)

\* _extract_json_ld (lines 71-90).
extract_json_ld(html) == ld_loop(html.ld, <<>>)

\* any(media_key in key_lower for media_key in [...]) and 'video' in key_lower,
\* for the keys of the pages explored: the media words each key holds.
key_words(key) ==
  CASE key = "imageSrc" -> {"image", "src"}
    [] key = "videoUrl" -> {"video", "url"}
    [] key = "media"    -> {"media"}
    [] OTHER            -> {}

\* snapchat_downloader.py:129 "max_depth=10".
DEFAULT_MAX_DEPTH == 10

\* Mutant of too_deep: the depth is never looked at.
too_deep_never(depth, max_depth) == FALSE

\* "if depth > max_depth: return items" (lines 133-134)
too_deep(depth, max_depth) == depth > max_depth

\* _traverse_json_for_media (lines 129-154); the recursive calls pass
\* depth + 1 and leave max_depth at its default.
RECURSIVE traverse_json_for_media(_, _, _)
RECURSIVE traverse_dict(_, _, _)
RECURSIVE traverse_list(_, _, _)
traverse_dict(pairs, depth, max_depth) ==
  IF pairs = <<>> THEN <<>>
  ELSE LET key == Head(pairs).key
           value == Head(pairs).val
           here ==
             IF key_words(key) # {}
               THEN IF value.k = "str" /\ startswith_http(value)
                      THEN <<[url |-> value,
                              type |-> IF "video" \in key_words(key)
                                         THEN "video" ELSE "image",
                              source |-> "json"]>>
                      ELSE <<>>
               ELSE IF value.k \in {"dict", "list"}
                      THEN traverse_json_for_media(value, depth + 1, DEFAULT_MAX_DEPTH)
                      ELSE <<>>
       IN  here \o traverse_dict(Tail(pairs), depth, max_depth)

traverse_list(elems, depth, max_depth) ==
  IF elems = <<>> THEN <<>>
  ELSE traverse_json_for_media(Head(elems), depth + 1, DEFAULT_MAX_DEPTH)
         \o traverse_list(Tail(elems), depth, max_depth)

traverse_json_for_media(data, depth, max_depth) ==
  IF too_deep(depth, max_depth) THEN <<>>
  ELSE IF data.k = "dict" THEN traverse_dict(data.items, depth, max_depth)
  ELSE IF data.k = "list" THEN traverse_list(data.items, depth, max_depth)
  ELSE <<>>

\* _extract_js_data (lines 106-127): html.js is the matches of the four
\* patterns in order; a match json.loads rejects is skipped.
RECURSIVE extract_js_data_loop(_)
extract_js_data_loop(matches) ==
  IF matches = <<>> THEN <<>>
  ELSE (IF Head(matches).b = "json"
          THEN traverse_json_for_media(Head(matches).data, 0, DEFAULT_MAX_DEPTH)
          ELSE <<>>)
       \o extract_js_data_loop(Tail(matches))

extract_js_data(html) == extract_js_data_loop(html.js)

\* _extract_direct_urls (lines 156-186): html.videos and html.images are the
\* matches of the five video and the five image patterns, in pattern order.
extract_direct_urls(html) ==
  [i \in 1..Len(html.videos) |-> [url |-> html.videos[i], type |-> "video"]]
    \o [i \in 1..Len(html.images) |-> [url |-> html.images[i], type |-> "image"]]

\* Mutant of remove_duplicates: a later item of the same URL replaces the
\* earlier one (its place is kept).
RECURSIVE remove_duplicates_keep_last(_, _)
remove_duplicates_keep_last(items, unique_items) ==
  IF items = <<>> THEN [raised |-> FALSE, items |-> unique_items]
  ELSE LET item == Head(items) IN
    IF ~hashable(item.url) THEN [raised |-> TRUE, items |-> unique_items]
    ELSE remove_duplicates_keep_last(Tail(items),
           IF \E i \in 1..Len(unique_items) : unique_items[i].url = item.url
             THEN [i \in 1..Len(unique_items) |->
                     IF unique_items[i].url = item.url THEN item ELSE unique_items[i]]
             ELSE Append(unique_items, item))

\* The de-duplication loop (lines 58-63); seen_urls is the set of the URLs of
\* unique_items.  Putting an unhashable url in the set raises TypeError.
RECURSIVE remove_duplicates(_, _)
remove_duplicates(items, unique_items) ==
  IF items = <<>> THEN [raised |-> FALSE, items |-> unique_items]
  ELSE LET item == Head(items) IN
    IF ~hashable(item.url) THEN [raised |-> TRUE, items |-> unique_items]
    ELSE remove_duplicates(Tail(items),
           IF \E i \in 1..Len(unique_items) : unique_items[i].url = item.url
             THEN unique_items
             ELSE Append(unique_items, item))

\* snapchat_downloader.py:65 "return unique_items[:15]".
MAX_ITEMS == 15

\* Mutant of limit_items: the list is returned whole.
limit_items_none(unique_items) == unique_items

\* unique_items[:15]
limit_items(unique_items) == Prefix(unique_items, MAX_ITEMS)

\* The three strategies' outputs, concatenated (lines 46-55).
all_items(html) ==
  extract_json_ld(html) \o extract_js_data(html) \o extract_direct_urls(html)

\* The body of the try block of fetch_public_content (lines 38-65).
fetch_body(p) ==
  CASE p.resp = "error"       -> [raised |-> TRUE, items |-> <<>>]   \* session.get
    [] p.resp = "non200"      -> [raised |-> FALSE, items |-> <<>>]
    [] p.resp = "undecodable" -> [raised |-> TRUE, items |-> <<>>]   \* response.text()
    [] p.resp = "ok" ->
         LET u == remove_duplicates(all_items(p), <<>>)
         IN  IF u.raised THEN u
             ELSE [raised |-> FALSE, items |-> limit_items(u.items)]

\* fetch_public_content (lines 19-69): "except Exception: return []".
fetch_public_content(p) ==
  LET r == fetch_body(p)
  IN  IF r.raised THEN [raised |-> FALSE, items |-> <<>>] ELSE r


\* ----------------------------------------------------- extraction: the pages

\* Most script tags / direct matches a page is given.
MaxBlocks == 2
MaxDirect == 2

\* How far past MAX_ITEMS the long pages go.
MaxExtra == 2

U1 == Str("https", 1)
U2 == Str("https", 2)

Text(n) == Str("text", n)                   \* a description of n characters
VideoObject == Str("VideoObject", 0)
ImageObject == Str("ImageObject", 0)

\* <script type="application/ld+json"> tags: script.string and what
\* json.loads makes of it.
NoString == [b |-> "nostring"]              \* script.string is None
Malformed == [b |-> "malformed"]            \* json.loads: JSONDecodeError
Json(data) == [b |-> "json", data |-> data]

LdBlocks ==
  { NoString, Malformed,
    Json(LdItem(VideoObject, U1, Missing, Text(250))),
    Json(LdItem(ImageObject, Missing, U2, Missing)),
    Json(LdItem(ImageObject, U1, Missing, Text(5))),
    Json(LdItem(Num, U2, Missing, Missing)),               \* '@type' not a string
    Json(LdItem(VideoObject, Num, Missing, Missing)),      \* contentUrl a number
    Json(LdItem(VideoObject, SchemeList, Missing, Missing)),
    Json(LdItem(VideoObject, Str("embedded", 1), U1, None)),  \* description null
    Json(LdItem(ImageObject, Str("embedded", 2), Missing, Missing)),
    Json(JList(<<LdItem(VideoObject, U2, Missing, Missing), Num>>)) }

\* Matches of the embedded-state patterns.
JsLists ==
  { <<>>,
    <<Malformed>>,
    <<Json(JDict(<<KV("imageSrc", U2), KV("videoUrl", U1)>>))>>,
    <<Malformed,
      Json(JDict(<<KV("title", Text(3)),
                   KV("items", JList(<<JDict(<<KV("videoUrl", U2)>>), Num>>)),
                   KV("media", JDict(<<KV("imageSrc", U1)>>)),
                   KV("imageSrc", Str("relative", 1))>>))>>,
    <<Json(JDict(<<KV("imageSrc", Str("httpword", 1))>>))>> }

SeqsUpTo(S, n) == UNION {[1..m -> S] : m \in 0..n}

ShortPages ==
  [resp : {"ok"}, ld : SeqsUpTo(LdBlocks, MaxBlocks), js : JsLists,
   videos : SeqsUpTo({U1, U2}, MaxDirect), images : SeqsUpTo({U1, U2}, 1)]

\* Pages with n distinct direct video matches, n around MAX_ITEMS, after a
\* well-formed block, a malformed block and a tag without a string.
LongPages ==
  { [resp |-> "ok",
     ld |-> <<Json(LdItem(ImageObject, U1, Missing, Missing)), Malformed, NoString>>,
     js |-> <<Malformed>>,
     videos |-> [i \in 1..n |-> Str("https", i)],
     images |-> <<U2>>] : n \in (MAX_ITEMS - 1)..(MAX_ITEMS + MaxExtra) }

FailedPages ==
  { [resp |-> r, ld |-> <<>>, js |-> <<>>, videos |-> <<>>, images |-> <<>>] :
      r \in {"error", "non200", "undecodable"} }

\* Deepest nesting of the embedded state of a page.
MaxNesting == 12

\* Mappings nested one in the other under the key "data", from level d down
\* to level n, each holding a video URL numbered by its level.
RECURSIVE DictChain(_, _)
DictChain(d, n) ==
  IF d >= n THEN JDict(<<KV("videoUrl", Str("https", d))>>)
  ELSE JDict(<<KV("videoUrl", Str("https", d)), KV("data", DictChain(d + 1, n))>>)

\* Sequences nested one in the other from level d down, around a mapping at
\* level n holding a video URL numbered n.
RECURSIVE ListChain(_, _)
ListChain(d, n) ==
  IF d >= n THEN JDict(<<KV("videoUrl", Str("https", n))>>)
  ELSE JList(<<ListChain(d + 1, n)>>)

DeepPages ==
  { [resp |-> "ok", ld |-> <<>>, js |-> <<Json(data)>>, videos |-> <<>>,
     images |-> <<>>] :
      data \in UNION { {DictChain(0, n), ListChain(0, n)} :
                         n \in (DEFAULT_MAX_DEPTH - 1)..MaxNesting } }


Pages == ShortPages \cup LongPages \cup FailedPages \cup DeepPages

\* ---------------------------------------------------- extraction: the system

\* "async with self.session.get(url, ...) as response" (line 39) and
\* "await response.text()" (line 43): the page is whatever the host sends.
get_page ==
  /\ fetch_pc = "called"
  /\ \E p \in Pages : page' = p
  /\ fetch_pc' = "response"
  /\ UNCHANGED media_items

\* The rest of fetch_public_content, which holds no await.
fetch_returns ==
  /\ fetch_pc = "response"
  /\ LET r == fetch_public_content(page)
     IN  /\ fetch_pc' = IF r.raised THEN "raised" ELSE "returned"
         /\ media_items' = r.items
  /\ UNCHANGED page

InitExtract ==
  /\ now = 0 /\ REQUESTS_PER_MINUTE = 1 /\ ADMIN_IDS = {}
  /\ user_requests = <<>>
  /\ inflight = [u \in Users |-> 0]
  /\ calls = [u \in Users |-> <<>>]
  /\ ret = [op |-> "init", user |-> 0, outcome |-> "none", t |-> 0, wait |-> 0]
  /\ page = [resp |-> "none"] /\ fetch_pc = "called" /\ media_items = <<>>
  /\ DeliveryIdle
  /\ ProcessIdle
  /\ RequestIdle

NextExtract ==
  \/ get_page /\ UNCHANGED <<rlVars, dvVars, prVars, rqVars>>
  \/ fetch_returns /\ UNCHANGED <<rlVars, dvVars, prVars, rqVars>>

SpecExtract == InitExtract /\ [][NextExtract]_vars

\* ---------------------------------------------------- extraction: the claims

\* Item i of list c is the first of its URL.
FirstAt(c, i) == \A j \in 1..(i - 1) : c[j].url # c[i].url

\* Where the URL of x is first found in c.
FirstIndex(c, x) == CHOOSE i \in 1..Len(c) : c[i].url = x.url /\ FirstAt(c, i)

\* C7: the returned list holds no URL twice; each returned item is the first
\* item found with its URL (its kind included) in the concatenation
\* structured-data, embedded-state, direct-pattern; the items stand in the
\* order of those first finds, and none found earlier is left out.
C7_UniqueInFirstDiscoveredOrder ==
  (fetch_pc = "returned" /\ page.resp = "ok") =>
    LET c == all_items(page)
        r == media_items
    IN  /\ \A p, q \in 1..Len(r) : p # q => r[p].url # r[q].url
        /\ \A p \in 1..Len(r) :
             /\ \E i \in 1..Len(c) : c[i].url = r[p].url
             /\ r[p] = c[FirstIndex(c, r[p])]
             /\ \A i \in 1..(FirstIndex(c, r[p]) - 1) :
                  FirstAt(c, i) => \E q \in 1..(p - 1) : r[q].url = c[i].url
        /\ \A p, q \in 1..Len(r) :
             p < q => FirstIndex(c, r[p]) < FirstIndex(c, r[q])

\* Reached: a URL found as a video by the structured-data strategy and again
\* as an image by the direct patterns, another URL found by the embedded-state
\* strategy in between; two items are returned, the video first.
C7_Witness ==
  /\ fetch_pc = "returned" /\ page.resp = "ok"
  /\ Len(media_items) = 2
  /\ media_items[1].url = U1 /\ media_items[1].type = "video"
  /\ media_items[2].url = U2 /\ media_items[2].type = "image"
  /\ extract_json_ld(page) # <<>>
  /\ extract_js_data(page) # <<>>
  /\ \E i \in 1..Len(page.images) : page.images[i] = U1

\* C8: whatever the page (malformed markup, non-200, network error),
\* fetch_public_content does not raise and returns at most 15 items.
C8_NeverRaisesAtMost15 ==
  /\ fetch_pc # "raised"
  /\ Len(media_items) <= 15

\* Reached: a page with more than 15 distinct URLs, a malformed block and a
\* tag without a string, for which 15 items are returned.
C8_Witness ==
  /\ fetch_pc = "returned"
  /\ Len(page.videos) > 15
  /\ \E i \in 1..Len(page.ld) : page.ld[i] = Malformed
  /\ Len(media_items) = 15


\* =========================================================================
\* Media fetch (snapchat_downloader.py:188-235)
\* =========================================================================

\* config.py:13 "self.MAX_FILE_SIZE = 100 * 1024 * 1024".
MAX_FILE_SIZE == 104857600

\* snapchat_downloader.py:220 "iter_chunked(8192)".
CHUNK_SIZE == 8192

\* The names snapchat_downloader.py binds at module level (lines 1-13): its
\* imports and its class.  "config" is not among them, nor is it a builtin.
module_names ==
  {"aiohttp", "asyncio", "re", "json", "hashlib", "Dict", "List", "Optional",
   "Tuple", "BeautifulSoup", "aiofiles", "Path", "time", "urlparse", "unquote",
   "SnapchatDownloader"}

\* Evaluating the name succeeds (otherwise: NameError).
name_bound(name) == name \in module_names

\* A response body: runs of "times" chunks of "size" bytes each, in order.
Run(size, times) == [size |-> size, times |-> times]

RECURSIVE BodySize(_)
BodySize(body) ==
  IF body = <<>> THEN 0
  ELSE Head(body).size * Head(body).times + BodySize(Tail(body))

\* Path(urlparse(url).path).suffix, for the URLs explored.
path_suffix(url) ==
  CASE url = U1 -> ".mp4"
    [] url = U2 -> ".jpg"
    [] OTHER    -> ""

\* The extension (lines 203-213): from Content-Type, else the URL, else .mp4.
extension(content_type, url) ==
  IF content_type = "video/mp4" THEN ".mp4"                       \* 'video' in
  ELSE IF content_type \in {"image/jpeg", "image/png"}            \* 'image' in
    THEN (IF content_type = "image/jpeg" THEN ".jpg" ELSE ".png") \* 'jpeg' in
  ELSE IF path_suffix(url) = "" THEN ".mp4" ELSE path_suffix(url)

\* The chunk loop (lines 219-229), a run of equal chunks at a time: the bytes
\* written, and whether the size check ended the loop.  Empty chunks are
\* skipped; the check follows each write.
RECURSIVE stream_loop(_, _)
stream_loop(body, total_size) ==
  IF body = <<>> THEN [aborted |-> FALSE, total |-> total_size]
  ELSE LET run == Head(body) IN
    IF run.size = 0 \/ run.times = 0 THEN stream_loop(Tail(body), total_size)
    ELSE IF total_size + run.size * run.times > MAX_FILE_SIZE
      THEN [aborted |-> TRUE,
            total |-> total_size
                        + run.size * (((MAX_FILE_SIZE - total_size) \div run.size) + 1)]
      ELSE stream_loop(Tail(body), total_size + run.size * run.times)

WithFile(fs, path, size) == (path :> size) @@ fs
WithoutFile(fs, path) == [p \in (DOMAIN fs) \ {path} |-> fs[p]]

\* Lines 217-235, entered with the destination path: the file is opened for
\* writing, the body streamed into it, and the path or None returned.
write_stream(filepath, resp, fs) ==
  LET s == stream_loop(resp.body, 0)
  IN  IF s.aborted                                      \* close, unlink
        THEN [ret |-> None, fs |-> WithoutFile(fs, filepath), written |-> s.total]
      ELSE IF resp.error = "payload"                    \* the stream raises
        THEN [ret |-> None, fs |-> WithFile(fs, filepath, s.total),
              written |-> s.total]
      ELSE [ret |-> IF s.total > 0 THEN filepath ELSE None,
            fs |-> WithFile(fs, filepath, s.total),
            written |-> s.total]

\* download_media (lines 188-235) against the response the host gives and the
\* directory as it stands: the value returned, the directory after, and the
\* bytes written to the file.  Every exception ends in "return None".
download_media(url, filename, resp, fs) ==
  LET absent == [ret |-> None, fs |-> fs, written |-> 0] IN
  IF resp.error = "connect" THEN absent                 \* session.get raises
  ELSE IF resp.status # 200 THEN absent
  ELSE LET ext == extension(resp.content_type, url) IN
    IF ~name_bound("config") THEN absent                \* line 215: NameError
    ELSE write_stream([name |-> filename, ext |-> ext], resp, fs)

\* What the host may answer to the GET of a media URL.
Response(error, status, content_type, body) ==
  [error |-> error, status |-> status, content_type |-> content_type, body |-> body]

Responses ==
  { Response("connect", 0, "", <<>>),
    Response("none", 404, "text/html", <<Run(300, 1)>>),
    Response("none", 200, "video/mp4", <<Run(CHUNK_SIZE, 2), Run(100, 1)>>),
    Response("none", 200, "image/jpeg", <<Run(CHUNK_SIZE, 12800)>>),
    Response("none", 200, "application/octet-stream",
             <<Run(CHUNK_SIZE, 12800), Run(1, 1)>>),
    Response("none", 200, "image/png", <<>>),
    Response("payload", 200, "video/mp4", <<Run(CHUNK_SIZE, 3)>>) }

\* The host answers 200 with a non-empty body of at most MAX_FILE_SIZE bytes
\* and nothing fails on the way.
Healthy(resp) ==
  /\ resp.error = "none" /\ resp.status = 200
  /\ BodySize(resp.body) > 0 /\ BodySize(resp.body) <= MAX_FILE_SIZE

\* telegram_bot.py:285 "media_items[:10]".
MAX_SENT == 10

\* f"{user_id}_{int(datetime.now().timestamp())}_{idx}" (telegram_bot.py:288)
make_filename(user, t, i) == <<user, t, i>>

U3 == Str("https", 3)

\* "async with self.session.get(url, ...)" (line 198): the call waits for the
\* response.
download_called(url, filename) ==
  /\ dl.pc \in {"idle", "returned"}
  /\ dl' = [pc |-> "get", url |-> url, filename |-> filename]
  /\ UNCHANGED files

\* The response is there; the rest of download_media runs.
download_returns ==
  /\ dl.pc = "get"
  /\ \E resp \in Responses :
       LET d == download_media(dl.url, dl.filename, resp, files)
       IN  /\ dl' = [pc |-> "returned", url |-> dl.url, filename |-> dl.filename,
                     resp |-> resp, ret |-> d.ret, written |-> d.written]
           /\ files' = d.fs

InitDownload ==
  /\ now = 0 /\ REQUESTS_PER_MINUTE = 1 /\ ADMIN_IDS = {}
  /\ user_requests = <<>>
  /\ inflight = [u \in Users |-> 0]
  /\ calls = [u \in Users |-> <<>>]
  /\ ret = [op |-> "init", user |-> 0, outcome |-> "none", t |-> 0, wait |-> 0]
  /\ page = [resp |-> "none"] /\ fetch_pc = "idle" /\ media_items = <<>>
  /\ DeliveryIdle
  /\ ProcessIdle
  /\ RequestIdle

NextDownload ==
  \/ \E url \in {U1, U2, U3}, u \in Users, i \in 0..(MAX_SENT - 1) :
       /\ download_called(url, make_filename(u, now, i))
       /\ UNCHANGED <<rlVars, exVars, prVars, rqVars, effective_user, pc, idx,
                      success_count, summary, relayed, served>>
  \/ /\ download_returns
     /\ UNCHANGED <<rlVars, exVars, prVars, rqVars, effective_user, pc, idx,
                    success_count, summary, relayed, served>>

SpecDownload == InitDownload /\ [][NextDownload]_vars

\* C9: a fetch whose streamed bytes exceed MAX_FILE_SIZE returns None and
\* leaves no file under its name; a fetch the host answers 200 without error
\* and with a body of at most MAX_FILE_SIZE bytes is not aborted: its whole
\* body is written.
C9_OversizeAbortedOthersNot ==
  dl.pc = "returned" =>
    LET size == BodySize(dl.resp.body)
        ok   == dl.resp.error = "none" /\ dl.resp.status = 200
    IN  /\ (ok /\ size > MAX_FILE_SIZE) =>
             /\ dl.ret = None
             /\ \A p \in DOMAIN files : p.name # dl.filename
        /\ (ok /\ size <= MAX_FILE_SIZE) => dl.written = size


\* =========================================================================
\* Delivery (telegram_bot.py:266-336)
\* =========================================================================

\* Largest number of items a fetch_public_content result holds in a delivery.
MaxFound == 11

Min(a, b) == IF a <= b THEN a ELSE b

\* The kinds along a result list.
Kinds == {"videos", "images", "mixed"}

kind_at(kinds, i) ==
  CASE kinds = "videos" -> "video"
    [] kinds = "images" -> "image"
    [] OTHER            -> IF i % 2 = 1 THEN "video" ELSE "image"

\* The lists fetch_public_content may return: distinct URLs, at most
\* MAX_ITEMS of them.
FoundLists ==
  { [i \in 1..k |-> [url |-> Str("https", i), type |-> kind_at(kinds, i)]] :
      k \in 0..Min(MaxFound, MAX_ITEMS), kinds \in Kinds }

attempted_all(items) == items

\* media_items[:10]
attempted(items) == SubSeq(items, 1, Min(Len(items), MAX_SENT))

\* "media_items = await self.downloader.fetch_public_content(username)" and
\* the "if not media_items: ... return" that follows (lines 267-277).
deliver_fetch ==
  /\ pc = "fetch"
  /\ \E items \in FoundLists :
       /\ media_items' = items
       /\ pc' = IF items = <<>> THEN "no_content" ELSE "loop"
  /\ idx' = 0
  /\ success_count' = 0
  /\ UNCHANGED <<files, dl, effective_user, summary, relayed, served>>

\* One turn of the loop (lines 285-322) for the item at position idx, the host
\* answering resp to the GET and the relay succeeding or raising.
process_item ==
  /\ pc = "loop"
  /\ idx < Len(attempted(media_items))
  /\ \E resp \in Responses, relay_ok \in BOOLEAN :
       LET item     == attempted(media_items)[idx + 1]
           filename == make_filename(effective_user, now, idx)
           d        == download_media(item.url, filename, resp, files)
           exists   == d.ret # None /\ d.ret \in DOMAIN d.fs
       IN  /\ dl' = [pc |-> "returned", url |-> item.url, filename |-> filename,
                     resp |-> resp, ret |-> d.ret, written |-> d.written]
           /\ served' = Append(served, Healthy(resp) /\ relay_ok)
           /\ IF ~exists                              \* "continue" (line 294)
                THEN /\ files' = d.fs
                     /\ UNCHANGED <<success_count, relayed>>
              ELSE IF ~relay_ok                       \* reply_* raises: line 320
                THEN /\ files' = d.fs
                     /\ UNCHANGED <<success_count, relayed>>
              ELSE /\ success_count' = success_count + 1
                   /\ relayed' = relayed \cup {idx + 1}
                   /\ files' = WithoutFile(d.fs, d.ret)   \* filepath.unlink()
  /\ idx' = idx + 1
  /\ UNCHANGED <<media_items, effective_user, pc, summary>>

\* The final status message (lines 325-336).
summarize ==
  /\ pc = "loop"
  /\ idx = Len(attempted(media_items))
  /\ summary' = [found     |-> Len(media_items),
                 succeeded |-> success_count,
                 failed    |-> Len(media_items) - success_count]
  /\ pc' = "done"
  /\ UNCHANGED <<files, dl, effective_user, idx, success_count, relayed, served,
                 media_items>>

InitDeliver ==
  /\ now = 0 /\ REQUESTS_PER_MINUTE = 1 /\ ADMIN_IDS = {}
  /\ user_requests = <<>>
  /\ inflight = [u \in Users |-> 0]
  /\ calls = [u \in Users |-> <<>>]
  /\ ret = [op |-> "init", user |-> 0, outcome |-> "none", t |-> 0, wait |-> 0]
  /\ page = [resp |-> "none"] /\ fetch_pc = "idle" /\ media_items = <<>>
  /\ files = <<>> /\ dl = NoDownload
  /\ effective_user \in Users
  /\ pc = "fetch" /\ idx = 0 /\ success_count = 0
  /\ summary = NoSummary /\ relayed = {} /\ served = <<>>
  /\ ProcessIdle
  /\ RequestIdle

NextDeliver ==
  \/ deliver_fetch /\ UNCHANGED <<rlVars, page, fetch_pc, prVars, rqVars>>
  \/ process_item /\ UNCHANGED <<rlVars, page, fetch_pc, prVars, rqVars>>
  \/ summarize /\ UNCHANGED <<rlVars, page, fetch_pc, prVars, rqVars>>

SpecDeliver == InitDeliver /\ [][NextDeliver]_vars

\* The items of a finished delivery whose fetch or relay failed.
FailedItems == {i \in 1..Len(served) : ~served[i]}

\* C10: when a delivery of k found items, k at most 10, has finished, and F is
\* the set of items whose fetch or relay failed, every item outside F has
\* been relayed and the summary reports found = k, succeeded = k - |F| and
\* failed = |F|.
C10_SummaryCountsFailures ==
  (pc = "done" /\ Len(media_items) <= MAX_SENT) =>
    /\ \A i \in (1..Len(media_items)) \ FailedItems : i \in relayed
    /\ summary.found = Len(media_items)
    /\ summary.succeeded = Len(media_items) - Cardinality(FailedItems)
    /\ summary.failed = Cardinality(FailedItems)


\* =========================================================================
\* The delivery loop step by step, and shutdown
\* (telegram_bot.py:285-322, 399-404; main.py:34-41, 52-61, 93-108)
\* =========================================================================

\* Largest number of found items in a delivery followed step by step.
MaxRelay == 3

RelayLists ==
  { [i \in 1..k |-> [url |-> Str("https", i), type |-> kind_at(kinds, i)]] :
      k \in 0..Min(MaxRelay, MAX_ITEMS), kinds \in Kinds }

\* The values of download_media's declared return type, Optional[Path]
\* (snapchat_downloader.py:188), for the destination name it was given: the
\* path of a file it wrote, or None.
DownloadResults(filename) == {None, [name |-> filename, ext |-> ".mp4"]}

\* Lines 267-284, for a delivery followed step by step.
relay_fetch_of(lists) ==
  /\ runner_pc = "running"
  /\ pc = "fetch"
  /\ \E items \in lists :
       /\ media_items' = items
       /\ pc' = IF items = <<>> THEN "no_content" ELSE "loop"
  /\ idx' = 0
  /\ success_count' = 0
  /\ UNCHANGED <<files, dl, effective_user, summary, relayed, served>>

relay_fetch == relay_fetch_of(RelayLists)

\* The loop takes its next item: the file name is made (line 288) and
\* download_media is called and awaited (line 291).
download_starts ==
  /\ runner_pc = "running"
  /\ pc = "loop"
  /\ idx < Len(attempted(media_items))
  /\ dl' = [pc |-> "get", url |-> attempted(media_items)[idx + 1].url,
            filename |-> make_filename(effective_user, now, idx)]
  /\ pc' = "download"
  /\ UNCHANGED <<files, media_items, effective_user, idx, success_count,
                 summary, relayed, served>>

\* "filepath = await self.downloader.download_media(item['url'], filename)"
\* and "if not filepath or not filepath.exists(): continue" (lines 288-294),
\* whatever value of its declared type the call returns.  With a file in
\* hand the relay is called at once (lines 297-307) and awaited.
download_result ==
  /\ runner_pc = "running"
  /\ pc = "download"
  /\ \E filepath \in DownloadResults(make_filename(effective_user, now, idx)) :
       /\ dl' = [pc |-> "returned", url |-> attempted(media_items)[idx + 1].url,
                 filename |-> make_filename(effective_user, now, idx),
                 ret |-> filepath]
       /\ IF filepath = None
            THEN /\ pc' = "loop" /\ idx' = idx + 1
                 /\ served' = Append(served, FALSE)
                 /\ UNCHANGED files
            ELSE /\ pc' = "relay" /\ idx' = idx
                 /\ files' = WithFile(files, filepath, CHUNK_SIZE)
                 /\ UNCHANGED served
  /\ UNCHANGED <<media_items, effective_user, success_count, summary, relayed>>

\* "await update.message.reply_video/reply_photo(...)" (lines 297-307), then
\* either lines 309-318 or, when the relay raises, the handler of line 320.
relay_item ==
  /\ runner_pc = "running"
  /\ pc = "relay"
  /\ \E relay_ok \in BOOLEAN :
       /\ served' = Append(served, relay_ok)
       /\ IF relay_ok
            THEN /\ success_count' = success_count + 1
                 /\ relayed' = relayed \cup {idx + 1}
                 /\ files' = WithoutFile(files, dl.ret)      \* filepath.unlink()
            ELSE UNCHANGED <<success_count, relayed, files>> \* "continue"
  /\ pc' = "loop"
  /\ idx' = idx + 1
  /\ UNCHANGED <<media_items, effective_user, dl, summary>>

\* The final status message (lines 325-336), while the process runs.
relay_summarize == runner_pc = "running" /\ summarize

\* signal_handler (main.py:36-38).
signal_handler ==
  /\ runner_pc = "running"
  /\ ~shutdown_event
  /\ shutdown_event' = TRUE
  /\ UNCHANGED <<deliveries, runner_pc>>

\* ReplitBotRunner.cleanup and SnapchatTelegramBot.cleanup (main.py:52-61,
\* telegram_bot.py:399-404): the session is closed and the application
\* stopped; nothing touches config.TEMP_DIR.
cleanup(fs) == fs

\* The "finally" of ReplitBotRunner.main (main.py:98-108): the bot task is
\* cancelled, a handler still in flight is abandoned at its await, cleanup
\* runs.
main_finally ==
  /\ runner_pc = "running"
  /\ shutdown_event
  /\ runner_pc' = "complete"
  /\ pc' = IF pc \in {"done", "no_content"} THEN pc ELSE "cancelled"
  /\ files' = cleanup(files)
  /\ UNCHANGED <<deliveries, shutdown_event, dl, effective_user, idx,
                 success_count, summary, relayed, served, media_items>>

InitRelay == InitDeliver

NextRelay ==
  \/ relay_fetch /\ UNCHANGED <<rlVars, page, fetch_pc, prVars, rqVars>>
  \/ download_starts /\ UNCHANGED <<rlVars, page, fetch_pc, prVars, rqVars>>
  \/ download_result /\ UNCHANGED <<rlVars, page, fetch_pc, prVars, rqVars>>
  \/ relay_item /\ UNCHANGED <<rlVars, page, fetch_pc, prVars, rqVars>>
  \/ relay_summarize /\ UNCHANGED <<rlVars, page, fetch_pc, prVars, rqVars>>
  \/ signal_handler /\ UNCHANGED <<rlVars, exVars, dvVars, rqVars>>
  \/ main_finally /\ UNCHANGED <<rlVars, page, fetch_pc, rqVars>>

SpecRelay == InitRelay /\ [][NextRelay]_vars

MaxDeliveries == 6

\* Last reading of the clock while deliveries run side by side.
MaxGateTime == 1

\* Largest number of items a page yields to one of these deliveries.
MaxGateItems == 1

\* config.py:26 "self.REQUESTS_PER_MINUTE = 20".
CONFIG_REQUESTS_PER_MINUTE == 20

\* snapchat_downloader.py:17 "asyncio.Semaphore(5)".
SEMAPHORE_VALUE == 5

DeliveryIds == 1..MaxDeliveries

\* update.effective_user.id of the message a delivery serves.
requester(d) == ((d - 1) % Cardinality(Users)) + 1

NotStarted == [pc |-> "idle"]

At(d, where) == deliveries[d].pc = where

\* The deliveries inside "async with self.request_semaphore" (line 38).
semaphore_holders == {d \in DeliveryIds : At(d, "page_get")}

\* The deliveries inside "async with self.session.get(...)" of download_media
\* (line 198).
open_media_fetches == {d \in DeliveryIds : At(d, "media_get")}

\* handle_message from its start to the semaphore of fetch_public_content
\* (telegram_bot.py:227-267, snapchat_downloader.py:38), for a text that
\* names a user.
delivery_starts(d) ==
  /\ At(d, "idle")
  /\ LET r == is_allowed(user_requests, requester(d), now, REQUESTS_PER_MINUTE)
     IN  /\ user_requests' = r.reqs
         /\ deliveries' = [deliveries EXCEPT ![d] =
              IF unauthorized(requester(d)) \/ ~r.ok
                THEN [pc |-> "done"]
                ELSE [pc |-> "page_wait"]]
  /\ UNCHANGED <<now, files>>

\* asyncio.Semaphore.acquire: passes while the value is positive.
semaphore_acquire(d) ==
  /\ At(d, "page_wait")
  /\ Cardinality(semaphore_holders) < SEMAPHORE_VALUE
  /\ deliveries' = [deliveries EXCEPT ![d] = [pc |-> "page_get"]]
  /\ UNCHANGED <<now, user_requests, files>>

\* The loop of handle_message from item i on (telegram_bot.py:285-294), up
\* to the next call of download_media that opens its request: no gate is
\* passed on the way (snapchat_downloader.py:188-198).
next_item(d, i, k) ==
  IF i < k
    THEN [pc |-> "media_get", idx |-> i, k |-> k,
          filename |-> make_filename(requester(d), now, i)]
    ELSE [pc |-> "done"]

\* The page arrives, the semaphore is released (lines 39-65), and
\* handle_message goes on to its first item.
page_returns(d) ==
  /\ At(d, "page_get")
  /\ \E k \in 0..MaxGateItems :
       deliveries' = [deliveries EXCEPT ![d] = next_item(d, 0, Min(k, MAX_SENT))]
  /\ UNCHANGED <<now, user_requests, files>>

\* The media host answers; download_media returns and the loop goes on.
media_returns(d) ==
  /\ At(d, "media_get")
  /\ LET cur == deliveries[d]
         outcomes == { download_media(Str("https", cur.idx + 1), cur.filename,
                                      resp, files) : resp \in Responses }
     IN  \E r \in outcomes :
           LET exists == r.ret # None /\ r.ret \in DOMAIN r.fs
           IN  /\ \E relay_ok \in (IF exists THEN BOOLEAN ELSE {TRUE}) :
                    files' = IF exists /\ relay_ok
                               THEN WithoutFile(r.fs, r.ret) ELSE r.fs
               /\ deliveries' = [deliveries EXCEPT ![d] =
                                   next_item(d, cur.idx + 1, cur.k)]
  /\ UNCHANGED <<now, user_requests>>

\* A second goes by.
clock_advances ==
  /\ now < MaxGateTime
  /\ now' = now + 1
  /\ UNCHANGED <<user_requests, files, deliveries>>

InitGate ==
  /\ now = 0 /\ REQUESTS_PER_MINUTE = CONFIG_REQUESTS_PER_MINUTE /\ ADMIN_IDS = {}
  /\ user_requests = <<>>
  /\ inflight = [u \in Users |-> 0]
  /\ calls = [u \in Users |-> <<>>]
  /\ ret = [op |-> "init", user |-> 0, outcome |-> "none", t |-> 0, wait |-> 0]
  /\ page = [resp |-> "none"] /\ fetch_pc = "idle" /\ media_items = <<>>
  /\ DeliveryIdle
  /\ deliveries = [d \in DeliveryIds |-> NotStarted]
  /\ shutdown_event = FALSE /\ runner_pc = "running"
  /\ RequestIdle

GateFrame ==
  UNCHANGED <<REQUESTS_PER_MINUTE, ADMIN_IDS, inflight, calls, ret, exVars,
              dl, effective_user, pc, idx, success_count, summary, relayed,
              served, shutdown_event, runner_pc, rqVars>>

NextGate ==
  \/ \E d \in DeliveryIds : delivery_starts(d) /\ GateFrame
  \/ \E d \in DeliveryIds : semaphore_acquire(d) /\ GateFrame
  \/ \E d \in DeliveryIds : page_returns(d) /\ GateFrame
  \/ \E d \in DeliveryIds : media_returns(d) /\ GateFrame
  \/ clock_advances /\ GateFrame

SpecGate == InitGate /\ [][NextGate]_vars

\* C12: at no time are more media fetches open, over all deliveries, than
\* the ceiling of the admission gate.
C12_OpenFetchesWithinCeiling ==
  Cardinality(open_media_fetches) <= SEMAPHORE_VALUE

\* C13: no two media fetches open at the same time, of whatever deliveries,
\* are given the same destination filename.
C13_FilenamesDistinct ==
  \A d1, d2 \in open_media_fetches :
    d1 # d2 => deliveries[d1].filename # deliveries[d2].filename


\* =========================================================================
\* Identifier parsing (snapchat_downloader.py:237-255)
\* =========================================================================

\* Largest number of fragments a message text is put together from.
MaxParts == 3

\* A Python str is the sequence of its characters.
PyStr(chars) == [k |-> "str", chars |-> chars]

UpperCase == <<"A", "B", "C", "D", "E", "F", "G", "H", "I", "J", "K", "L", "M", "N", "O", "P", "Q", "R", "S", "T", "U", "V", "W", "X", "Y", "Z">>
LowerCase == <<"a", "b", "c", "d", "e", "f", "g", "h", "i", "j", "k", "l", "m", "n", "o", "p", "q", "r", "s", "t", "u", "v", "w", "x", "y", "z">>
Digits == <<"0", "1", "2", "3", "4", "5", "6", "7", "8", "9">>

Range(seq) == {seq[i] : i \in 1..Len(seq)}

\* str.lower() / re.IGNORECASE, a character at a time.
lower_char(c) ==
  IF c \in Range(UpperCase)
    THEN LowerCase[CHOOSE i \in 1..Len(UpperCase) : UpperCase[i] = c]
    ELSE c

lower_chars(chars) == [i \in 1..Len(chars) |-> lower_char(chars[i])]

\* The character class [a-zA-Z0-9_.-].
name_char(c) ==
  c \in Range(UpperCase) \cup Range(LowerCase) \cup Range(Digits) \cup {"_", ".", "-"}

\* Mutant of patterns: the generic profile URL is tried first.
patterns_generic_first ==
  << <<"s", "n", "a", "p", "c", "h", "a", "t", ".", "c", "o", "m", "/">>,
     <<"s", "n", "a", "p", "c", "h", "a", "t", ".", "c", "o", "m", "/", "a", "d", "d", "/">>,
     <<"s", "n", "a", "p", "c", "h", "a", "t", ".", "c", "o", "m", "/", "s", "/">>,
     <<"@">> >>

\* The literal each pattern of lines 239-244 begins with; every one of them
\* goes on with the group ([a-zA-Z0-9_.-]+).
patterns ==
  << <<"s", "n", "a", "p", "c", "h", "a", "t", ".", "c", "o", "m", "/", "a", "d", "d", "/">>,
     <<"s", "n", "a", "p", "c", "h", "a", "t", ".", "c", "o", "m", "/", "s", "/">>,
     <<"s", "n", "a", "p", "c", "h", "a", "t", ".", "c", "o", "m", "/">>,
     <<"@">> >>

\* The literal stands in the text at position i, whatever the case.
literal_at(literal, chars, i) ==
  /\ i + Len(literal) - 1 <= Len(chars)
  /\ \A j \in 1..Len(literal) : lower_char(chars[i + j - 1]) = lower_char(literal[j])

\* The greedy group from position j: the index of its last character (j - 1
\* when the character at j is not of the class).
RECURSIVE group_end(_, _)
group_end(chars, j) ==
  IF j <= Len(chars) /\ name_char(chars[j]) THEN group_end(chars, j + 1) ELSE j - 1

\* re.search(pattern, text, re.IGNORECASE) from position i on: group(1) of
\* the leftmost match, or None.
RECURSIVE re_search(_, _, _)
re_search(literal, chars, i) ==
  IF i > Len(chars) THEN None
  ELSE LET j == i + Len(literal)
       IN  IF literal_at(literal, chars, i) /\ group_end(chars, j) >= j
             THEN PyStr(SubSeq(chars, j, group_end(chars, j)))
             ELSE re_search(literal, chars, i + 1)

\* re.match(r'^[a-zA-Z0-9_.-]{3,20}$', text), for a text without line breaks.
plain_username(chars) ==
  /\ Len(chars) >= 3 /\ Len(chars) <= 20
  /\ \A i \in 1..Len(chars) : name_char(chars[i])

\* The loop "for pattern in patterns" from pattern n on, then the fallback.
RECURSIVE patterns_loop(_, _)
patterns_loop(chars, n) ==
  IF n > Len(patterns)
    THEN IF plain_username(chars) THEN PyStr(lower_chars(chars)) ELSE None
  ELSE LET match == re_search(patterns[n], chars, 1)
       IN  IF match # None THEN PyStr(lower_chars(match.chars))
           ELSE patterns_loop(chars, n + 1)

extract_username_from_url(chars) == patterns_loop(chars, 1)

\* Fragments of message texts.
Parts ==
  { <<"s", "n", "a", "p", "c", "h", "a", "t", ".", "c", "o", "m", "/">>,
    <<"S", "n", "a", "p", "C", "h", "a", "t", ".", "C", "O", "M", "/">>,
    <<"a", "d", "d", "/">>,
    <<"s", "/">>,
    <<"@">>,
    <<"a", "l", "i", "c", "e">>,
    <<"B", "o", "b", "1", "2", "3">>,
    <<"x", "y", "z">>,
    <<"a">>,
    <<"a", "_", "r", "a", "t", "h", "e", "r", ".", "l", "o", "n", "g", "-", "u", "s", "e", "r", "-", "n", "a", "m", "e">>,
    <<" ">>,
    <<"!">> }

RECURSIVE Concat(_)
Concat(parts) == IF parts = <<>> THEN <<>> ELSE Head(parts) \o Concat(Tail(parts))

\* "text = update.message.text.strip()" (telegram_bot.py:242): not empty, no
\* blank at either end.
Stripped(chars) == chars # <<>> /\ chars[1] # " " /\ chars[Len(chars)] # " "

Texts ==
  { t \in UNION { {Concat(ps) : ps \in [1..n -> Parts]} : n \in 1..MaxParts } :
      Stripped(t) }

\* "username = self.downloader.extract_username_from_url(text)" (line 249).
parse_text ==
  /\ username = NotParsed
  /\ username' = extract_username_from_url(text)
  /\ UNCHANGED <<text, steps>>

InitParse ==
  /\ now = 0 /\ REQUESTS_PER_MINUTE = CONFIG_REQUESTS_PER_MINUTE /\ ADMIN_IDS = {}
  /\ user_requests = <<>>
  /\ inflight = [u \in Users |-> 0]
  /\ calls = [u \in Users |-> <<>>]
  /\ ret = [op |-> "init", user |-> 0, outcome |-> "none", t |-> 0, wait |-> 0]
  /\ page = [resp |-> "none"] /\ fetch_pc = "idle" /\ media_items = <<>>
  /\ DeliveryIdle
  /\ ProcessIdle
  /\ text \in Texts /\ username = NotParsed /\ steps = <<>>

NextParse == parse_text /\ UNCHANGED <<rlVars, exVars, dvVars, prVars>>

SpecParse == InitParse /\ [][NextParse]_vars

\* The priority list of the shapes: add-URL, story-URL, generic profile URL,
\* @handle.
PriorityList ==
  << <<"s", "n", "a", "p", "c", "h", "a", "t", ".", "c", "o", "m", "/", "a", "d", "d", "/">>,
     <<"s", "n", "a", "p", "c", "h", "a", "t", ".", "c", "o", "m", "/", "s", "/">>,
     <<"s", "n", "a", "p", "c", "h", "a", "t", ".", "c", "o", "m", "/">>,
     <<"@">> >>

\* The places where shape n matches: its literal, whatever the case,
\* followed by at least one character of the class.
MatchPlaces(n, chars) ==
  { i \in 1..Len(chars) :
      /\ i + Len(PriorityList[n]) <= Len(chars)
      /\ \A j \in 1..Len(PriorityList[n]) :
           lower_char(chars[i + j - 1]) = PriorityList[n][j]
      /\ name_char(chars[i + Len(PriorityList[n])]) }

SetMin(S) == CHOOSE x \in S : \A y \in S : x <= y

\* What the leftmost match of pattern n captures: the longest run of
\* characters of the class after the literal.
CaptureOf(n, chars) ==
  LET from == SetMin(MatchPlaces(n, chars)) + Len(PriorityList[n])
      to   == CHOOSE e \in from..Len(chars) :
                /\ \A j \in from..e : name_char(chars[j])
                /\ (e = Len(chars) \/ ~name_char(chars[e + 1]))
  IN  SubSeq(chars, from, to)

PatternIds == 1..Len(PriorityList)

\* C15: the identifier parsed from a text is the lowercased capture of the
\* first pattern of the priority list (add-URL, story-URL, generic profile
\* URL, @handle) that matches; when none matches it is the lowercased text
\* if the whole text is 3 to 20 characters of the restricted charset, and
\* absence otherwise.  So "snapchat.com/add/alice" gives "alice", "@Bob123"
\* gives "bob123", "xyz" gives "xyz" and "a" gives absence.
C15_FirstMatchingPatternWins ==
  username # NotParsed =>
    LET matching == {n \in PatternIds : MatchPlaces(n, text) # {}} IN
    /\ matching # {} =>
         username = PyStr(lower_chars(CaptureOf(SetMin(matching), text)))
    /\ (matching = {} /\ Len(text) \in 3..20
          /\ \A i \in 1..Len(text) : name_char(text[i])) =>
         username = PyStr(lower_chars(text))
    /\ (matching = {} /\ ~(Len(text) \in 3..20
          /\ \A i \in 1..Len(text) : name_char(text[i]))) =>
         username = None
    /\ text = <<"s", "n", "a", "p", "c", "h", "a", "t", ".", "c", "o", "m", "/", "a", "d", "d", "/", "a", "l", "i", "c", "e">>
         => username = PyStr(<<"a", "l", "i", "c", "e">>)
    /\ text = <<"@", "B", "o", "b", "1", "2", "3">> => username = PyStr(<<"b", "o", "b", "1", "2", "3">>)
    /\ text = <<"x", "y", "z">> => username = PyStr(<<"x", "y", "z">>)
    /\ text = <<"a">> => username = None

\* An add-URL, which the generic pattern matches too, has been parsed to the
\* name after "add/".
C15_Witness ==
  /\ text = <<"s", "n", "a", "p", "c", "h", "a", "t", ".", "c", "o", "m", "/", "a", "d", "d", "/", "a", "l", "i", "c", "e">>
  /\ username = PyStr(<<"a", "l", "i", "c", "e">>)


\* =========================================================================
\* One request from end to end (telegram_bot.py:225-343)
\* =========================================================================

\* The texts of the requests followed from end to end.
RequestTexts ==
  { <<"s", "n", "a", "p", "c", "h", "a", "t", ".", "c", "o", "m", "/", "a", "d", "d", "/", "a", "l", "i", "c", "e">>,
    <<"@", "B", "o", "b", "1", "2", "3">>,
    <<"x", "y", "z">>,
    <<"a">> }

\* Mutant of parsed_ok: the result of the parse is not looked at.
parsed_ok_always(name) == TRUE

\* "if not username: ... return" (lines 251-259), negated.
parsed_ok(name) == name # None /\ name.chars # <<>>

\* Lines 227-240: the authorization check, then the rate limiter.
rate_limit_step ==
  /\ pc = "start"
  /\ IF unauthorized(effective_user)
       THEN /\ pc' = "unauthorized"
            /\ ret' = [op |-> "handle_message", user |-> effective_user,
                       outcome |-> "unauthorized", t |-> now, wait |-> 0]
            /\ UNCHANGED <<user_requests, steps>>
       ELSE LET r == is_allowed(user_requests, effective_user, now,
                                REQUESTS_PER_MINUTE)
            IN  /\ user_requests' = r.reqs
                /\ steps' = Append(steps, "rate_limit_check")
                /\ pc' = IF r.ok THEN "typing" ELSE "rate_limited"
                /\ ret' = [op |-> "handle_message", user |-> effective_user,
                           outcome |-> IF r.ok THEN "admitted" ELSE "rate_limited",
                           t |-> now,
                           wait |-> IF r.ok THEN 0
                                    ELSE get_wait_time(r.reqs, effective_user, now)]
  /\ UNCHANGED <<now, REQUESTS_PER_MINUTE, ADMIN_IDS, inflight, calls, exVars,
                 files, dl, effective_user, idx, success_count, summary,
                 relayed, served, text, username>>

\* Lines 242-264: the typing indicator, then the identifier is parsed.
identifier_step ==
  /\ pc = "typing"
  /\ username' = extract_username_from_url(text)
  /\ steps' = Append(steps, "identifier_extraction")
  /\ pc' = IF parsed_ok(username') THEN "fetch" ELSE "invalid"
  /\ UNCHANGED <<rlVars, exVars, files, dl, effective_user, idx, success_count,
                 summary, relayed, served, text>>

\* Line 267: fetch_public_content gets the page and runs the extraction.
request_fetch ==
  /\ relay_fetch
  /\ steps' = steps \o <<"page_fetch", "extraction">>
  /\ UNCHANGED <<rlVars, page, fetch_pc, text, username>>

\* One turn of the loop: fetch, relay, cleanup.
request_item ==
  /\ process_item
  /\ steps' = Append(steps, "item")
  /\ UNCHANGED <<rlVars, page, fetch_pc, text, username>>

request_summary ==
  /\ summarize
  /\ steps' = Append(steps, "summary")
  /\ UNCHANGED <<rlVars, page, fetch_pc, text, username>>

\* A request arrives, possibly after an earlier one of the same user.
InitRequest ==
  /\ now = 0
  /\ REQUESTS_PER_MINUTE \in 1..MaxLimit
  /\ ADMIN_IDS \in {{}, {1}}
  /\ effective_user \in Users
  /\ user_requests \in {<<>>, (effective_user :> <<0>>)}
  /\ inflight = [u \in Users |-> 0]
  /\ calls = [u \in Users |-> <<>>]
  /\ ret = [op |-> "init", user |-> 0, outcome |-> "none", t |-> 0, wait |-> 0]
  /\ page = [resp |-> "none"] /\ fetch_pc = "idle" /\ media_items = <<>>
  /\ files = <<>> /\ dl = NoDownload
  /\ pc = "start" /\ idx = 0 /\ success_count = 0
  /\ summary = NoSummary /\ relayed = {} /\ served = <<>>
  /\ ProcessIdle
  /\ text \in RequestTexts /\ username = NotParsed /\ steps = <<>>

NextRequest ==
  \/ rate_limit_step /\ UNCHANGED prVars
  \/ identifier_step /\ UNCHANGED prVars
  \/ request_fetch /\ UNCHANGED prVars
  \/ request_item /\ UNCHANGED prVars
  \/ request_summary /\ UNCHANGED prVars

SpecRequest == InitRequest /\ [][NextRequest]_vars

\* The steps of a request, in the order the flow allows one after another.
FlowPairs ==
  { <<"rate_limit_check", "identifier_extraction">>,
    <<"identifier_extraction", "page_fetch">>,
    <<"page_fetch", "extraction">>,
    <<"extraction", "item">>,
    <<"item", "item">>,
    <<"item", "summary">> }

\* C14, as the code has it: for every request the steps occur in the order
\* rate-limit check, identifier extraction, page fetch, extraction, the
\* per-item loop, summary; the rate-limit check comes first, and no page
\* fetch happens unless the request was admitted and an identifier parsed.
C14_StepsInOrder ==
  /\ steps # <<>> => steps[1] = "rate_limit_check"
  /\ \A i \in 2..Len(steps) : <<steps[i - 1], steps[i]>> \in FlowPairs
  /\ "page_fetch" \in Range(steps) =>
       /\ ret.outcome = "admitted"
       /\ username \notin {NotParsed, None}

\* A request has gone through every step up to its summary.
C14_Witness ==
  /\ pc = "done"
  /\ Len(steps) >= 6
  /\ steps[Len(steps)] = "summary"

\* C14 as stated: identifier extraction precedes the rate-limit check.
C14_IdentifierBeforeRateLimit ==
  \A i \in 1..Len(steps) :
    steps[i] = "rate_limit_check" =>
      \E j \in 1..(i - 1) : steps[j] = "identifier_extraction"


\* =========================================================================
\* Extraction: the strategies one by one
\* =========================================================================

\* A page has come back with markup in it.
PageIn == fetch_pc \in {"response", "returned"} /\ page.resp = "ok"

\* The parsed fragments of the embedded state of the page.
StateFragments == {page.js[i].data : i \in {j \in 1..Len(page.js) : page.js[j].b = "json"}}

UrlAndKind(items) == {[url |-> items[i].url, type |-> items[i].type] : i \in 1..Len(items)}

\* Every pair (media-named key, string) found in a
\* mapping at level "depth" or below, at most the bound deep, under whatever
\* key or in whatever sequence the mapping is stored, with its kind and level.
RECURSIVE MediaPairs(_, _)
MediaPairs(data, depth) ==
  IF data.k = "dict" THEN
    UNION { (IF key_words(data.items[i].key) # {}
                /\ data.items[i].val.k = "str"
               THEN {[url |-> data.items[i].val,
                      type |-> IF "video" \in key_words(data.items[i].key)
                                 THEN "video" ELSE "image",
                      depth |-> depth]}
               ELSE {})
            \cup MediaPairs(data.items[i].val, depth + 1) : i \in 1..Len(data.items) }
  ELSE IF data.k = "list" THEN
    UNION { MediaPairs(data.items[i], depth + 1) : i \in 1..Len(data.items) }
  ELSE {}

PairsWithin(data, bound) ==
  {[url |-> p.url, type |-> p.type] :
     p \in {q \in MediaPairs(data, 0) :
              q.depth <= bound /\ q.url.form \in {"https", "http"}}}

\* C17: every string beginning with a scheme and keyed under a media name,
\* in whatever mapping or sequence within the depth bound it lies (also
\* inside the value of a media-named key), yields an item of the embedded-
\* state strategy, a video iff the key holds "video".
C17_EveryNestedPairYieldsItem ==
  PageIn =>
    \A data \in StateFragments :
      PairsWithin(data, DEFAULT_MAX_DEPTH)
        \subseteq UrlAndKind(traverse_json_for_media(data, 0, DEFAULT_MAX_DEPTH))

\* The fragments in which every URL lies at one level only.
DeepFragments ==
  UNION { {DictChain(0, n), ListChain(0, n)} :
            n \in (DEFAULT_MAX_DEPTH - 1)..MaxNesting }

\* C18: the traversal of the embedded state comes to an end, none of its
\* items comes from a mapping nested more than 10 levels deep, and along
\* nested mappings and sequences it reaches down to level 10.
C18_TraversalBoundedToTenLevels ==
  PageIn =>
    \A data \in StateFragments :
      LET items == traverse_json_for_media(data, 0, DEFAULT_MAX_DEPTH) IN
      /\ \A i \in 1..Len(items) :
           \E p \in MediaPairs(data, 0) :
             /\ p.url = items[i].url
             /\ p.depth <= 10
             /\ \A q \in MediaPairs(data, 0) :
                  (q.url = p.url /\ data \in DeepFragments) => q.depth <= 10
      /\ \A n \in 0..10 :
           data \in {DictChain(0, m) : m \in n..MaxNesting}
             => Str("https", n) \in {items[i].url : i \in 1..Len(items)}

\* The embedded state of the fetched page is nested deeper than the bound;
\* the item of level 10 is among those returned.
C18_Witness ==
  /\ fetch_pc = "returned"
  /\ page.js = <<Json(DictChain(0, DEFAULT_MAX_DEPTH + 1))>>
  /\ \E i \in 1..Len(media_items) : media_items[i].url = Str("https", DEFAULT_MAX_DEPTH)

\* The structured-data block is a bad one: no text in it, text that is not
\* JSON, or JSON whose entries are not mappings or hold fields that are not
\* strings.
RECURSIVE BadBlock(_)
BadBlock(block) ==
  \/ block.b \in {"nostring", "malformed"}
  \/ /\ block.b = "json"
     /\ \/ block.data.k \notin {"lditem", "list"}
        \/ /\ block.data.k = "lditem"
           /\ \E f \in {block.data.atype, block.data.contentUrl, block.data.url,
                        block.data.description} : f.k \notin {"str", "missing"}
        \/ /\ block.data.k = "list"
           /\ \E i \in 1..Len(block.data.items) : BadBlock(Json(block.data.items[i]))

RECURSIVE WithoutBad(_)
WithoutBad(blocks) ==
  IF blocks = <<>> THEN <<>>
  ELSE (IF BadBlock(Head(blocks)) THEN <<>> ELSE <<Head(blocks)>>)
         \o WithoutBad(Tail(blocks))

\* C19: after a bad block of the structured data, the strategy goes on to
\* emit, for the blocks that follow, the items it emits when the bad blocks
\* are not there.
C19_BadBlockSkippedAlone ==
  PageIn =>
    \A i \in 1..Len(page.ld) :
      BadBlock(page.ld[i]) =>
        LET upto  == ld_loop(SubSeq(page.ld, 1, i), <<>>)
            whole == ld_loop(page.ld, <<>>)
            rest  == SubSeq(page.ld, i + 1, Len(page.ld))
        IN  SubSeq(whole, Len(upto) + 1, Len(whole)) = ld_loop(WithoutBad(rest), <<>>)

\* C20: every item returned by extraction has, as url, a string that begins
\* with http:// or https://.
C20_UrlBeginsWithScheme ==
  fetch_pc = "returned" =>
    \A i \in 1..Len(media_items) :
      /\ media_items[i].url.k = "str"
      /\ media_items[i].url.form \in {"https", "http"}


\* =========================================================================
\* The rate limiter: one user's calls and another user's state
\* =========================================================================

\* What user v would be told at clock reading t: the result of is_allowed,
\* the window it would leave, and the wait time.
AnswerTo(reqs, v, t) ==
  LET r == is_allowed(reqs, v, t, REQUESTS_PER_MINUTE)
  IN  [ok |-> r.ok, window |-> r.reqs[v], wait |-> get_wait_time(reqs, v, t)]

\* C26: a step in which user u calls is_allowed or get_wait_time leaves, for
\* every other user v, the window of v, the admission result v would get and
\* the wait time v would be told as they were; a get_wait_time query leaves
\* every window, the caller's included, as it was.
C26_OtherUsersUntouched ==
  [][\A u \in Users :
       (ret'.user = u /\ ret'.op \in {"handle_message", "stats_command"}) =>
         /\ \A v \in Users \ {u} :
              /\ v \in DOMAIN user_requests' <=> v \in DOMAIN user_requests
              /\ WindowOf(user_requests', v) = WindowOf(user_requests, v)
              /\ \A d \in Deltas \cup ReadDeltas :
                   AnswerTo(user_requests', v, now' + d)
                     = AnswerTo(user_requests, v, now' + d)
         /\ ret'.op = "stats_command" => user_requests' = user_requests
    ]_vars

\* Reached: a user is admitted and recorded while another user, whose window
\* is full, would be rejected and told to wait.
C26_Witness ==
  \E u \in Users : \E v \in Users \ {u} :
    /\ ret.op = "handle_message" /\ ret.user = u /\ ret.outcome = "admitted"
    /\ Len(WindowOf(user_requests, v)) = REQUESTS_PER_MINUTE
    /\ ~AnswerTo(user_requests, v, now).ok
    /\ AnswerTo(user_requests, v, now).wait > 0
    /\ WindowOf(user_requests, u) # WindowOf(user_requests, v)

\* =========================================================================
\* The media fetch and the summary: what a caller may rely on
\* =========================================================================

\* C23: when the host answers 200 with a non-empty body of at most
\* MAX_FILE_SIZE bytes and nothing fails, download_media returns the path of
\* a file that exists and is not empty.
C23_HealthyFetchReturnsFile ==
  (dl.pc = "returned" /\ Healthy(dl.resp)) =>
    /\ dl.ret # None
    /\ dl.ret \in DOMAIN files
    /\ files[dl.ret] > 0

\* C25: in the final summary, failed is the number of items that were
\* attempted and not relayed (items beyond the 10th are not attempted and
\* not counted), and succeeded + failed is the number of attempted items.
C25_FailedCountsAttemptedOnly ==
  pc = "done" =>
    /\ summary.failed = Len(attempted(media_items)) - Cardinality(relayed)
    /\ summary.succeeded + summary.failed = Len(attempted(media_items))


\* =========================================================================
\* The streaming block of download_media on its own
\* (snapchat_downloader.py:217-235)
\* =========================================================================

\* Lines 217-235 run for a destination path: the host has answered 200 and
\* the body comes in, whole or cut off by an error.
stream_returns ==
  /\ dl.pc = "get"
  /\ \E resp \in {r \in Responses : r.error # "connect" /\ r.status = 200} :
       LET filepath == [name |-> dl.filename,
                        ext |-> extension(resp.content_type, dl.url)]
           d == write_stream(filepath, resp, files)
       IN  /\ dl' = [pc |-> "returned", url |-> dl.url, filename |-> dl.filename,
                     resp |-> resp, ret |-> d.ret, written |-> d.written]
           /\ files' = d.fs

NextStream ==
  \/ \E url \in {U1, U2, U3}, u \in Users, i \in 0..(MAX_SENT - 1) :
       /\ DOMAIN files = {}                  \* each call starts on an empty directory
       /\ download_called(url, make_filename(u, now, i))
       /\ UNCHANGED <<rlVars, exVars, prVars, rqVars, effective_user, pc, idx,
                      success_count, summary, relayed, served>>
  \/ /\ stream_returns
     /\ UNCHANGED <<rlVars, exVars, prVars, rqVars, effective_user, pc, idx,
                    success_count, summary, relayed, served>>

SpecStream == InitDownload /\ [][NextStream]_vars

LongLists ==
  { [i \in 1..(MAX_SENT + 1) |-> [url |-> Str("https", i), type |-> "video"]] }

NextSerial ==
  \/ /\ relay_fetch_of(RelayLists \cup LongLists)
     /\ UNCHANGED <<rlVars, page, fetch_pc, prVars, rqVars>>
  \/ download_starts /\ UNCHANGED <<rlVars, page, fetch_pc, prVars, rqVars>>
  \/ download_result /\ UNCHANGED <<rlVars, page, fetch_pc, prVars, rqVars>>
  \/ relay_item /\ UNCHANGED <<rlVars, page, fetch_pc, prVars, rqVars>>
  \/ relay_summarize /\ UNCHANGED <<rlVars, page, fetch_pc, prVars, rqVars>>

SpecSerial == InitRelay /\ [][NextSerial]_vars

\* The items whose fetch and relay attempt have both concluded: served has
\* one entry for each, written when the item is left.
Concluded == Len(served)

\* C21: a fetch starts only for one of the first 10 items, the one that
\* follows the last concluded item in extraction order, and only while
\* neither a fetch nor a relay of the delivery is in progress; a relay
\* starts only for the item whose fetch has just concluded; every item is
\* left before the next is taken.
C21_OneItemAtATime ==
  [][/\ (pc' = "download" /\ pc # "download") =>
          /\ pc = "loop"
          /\ Concluded = idx /\ idx' = idx
          /\ idx + 1 <= MAX_SENT
          /\ idx + 1 <= Len(media_items)
          /\ dl'.url = media_items[idx + 1].url
     /\ (pc' = "relay" /\ pc # "relay") =>
          /\ pc = "download"
          /\ Concluded = idx /\ idx' = idx
          /\ dl'.url = media_items[idx + 1].url
     /\ Concluded' \in {Concluded, Concluded + 1}
     /\ Concluded' = Concluded + 1 =>
          /\ pc \in {"download", "relay"} /\ pc' = "loop"
          /\ idx' = idx + 1 /\ Concluded' = idx'
     /\ Concluded' <= MAX_SENT
    ]_vars

\* A delivery of 11 found items has finished: 10 items were taken, the
\* tenth after a relay that succeeded and one that raised.
C21_Witness ==
  /\ pc = "done"
  /\ Len(media_items) = MAX_SENT + 1
  /\ Concluded = MAX_SENT
  /\ 9 \in relayed
  /\ \E i \in 1..8 : ~served[i] /\ i \notin relayed


\* =========================================================================
\* /clean while a delivery runs (telegram_bot.py:211-223, 283-336;
\* snapchat_downloader.py:188-235)
\* =========================================================================

\* Number of /clean commands sent while the delivery is followed.
MaxCleans == 1

\* The temporary directory when it does not exist.
NoDirectory == [k |-> "nodir"]

\* shutil.rmtree(temp_dir) and temp_dir.mkdir(exist_ok=True).
rmtree(fs) == NoDirectory

mkdir(fs) == IF fs = NoDirectory THEN <<>> ELSE fs

\* clean_command (lines 211-223): both calls are made without an await in
\* between, at any await of a delivery in flight.
clean_command ==
  /\ runner_pc = "running"
  /\ Len(SelectSeq(steps, LAMBDA s : s = "clean")) < MaxCleans
  /\ files' = IF files # NoDirectory THEN mkdir(rmtree(files)) ELSE files
  /\ steps' = Append(steps, "clean")
  /\ UNCHANGED <<dl, effective_user, pc, idx, success_count, summary, relayed,
                 served, text, username>>

\* Lines 288-291: the loop takes its next item and awaits download_media.
item_starts ==
  /\ download_starts
  /\ steps' = Append(steps, "fetch_start")
  /\ UNCHANGED <<text, username>>

\* download_media comes back, resp being what the host answered, and lines
\* 293-322 run for the item: "continue" on None, else the relay, the count
\* and the unlink, or the handler of line 320 when the relay raises.
item_concludes ==
  /\ runner_pc = "running"
  /\ pc = "download"
  /\ \E resp \in Responses, relay_ok \in BOOLEAN :
       LET d      == download_media(dl.url, dl.filename, resp, files)
           exists == d.ret # None /\ d.ret \in DOMAIN d.fs
       IN  /\ dl' = [pc |-> "returned", url |-> dl.url, filename |-> dl.filename,
                     resp |-> resp, ret |-> d.ret, written |-> d.written]
           /\ served' = Append(served, Healthy(resp) /\ relay_ok)
           /\ IF ~exists                              \* "continue" (line 294)
                THEN /\ files' = d.fs
                     /\ UNCHANGED <<success_count, relayed>>
              ELSE IF ~relay_ok                       \* reply_* raises: line 320
                THEN /\ files' = d.fs
                     /\ UNCHANGED <<success_count, relayed>>
              ELSE /\ success_count' = success_count + 1
                   /\ relayed' = relayed \cup {idx + 1}
                   /\ files' = WithoutFile(d.fs, d.ret)   \* filepath.unlink()
  /\ pc' = "loop"
  /\ idx' = idx + 1
  /\ steps' = Append(steps, "fetch_end")
  /\ UNCHANGED <<media_items, effective_user, summary, text, username>>

NextClean ==
  \/ relay_fetch /\ UNCHANGED <<rlVars, page, fetch_pc, prVars, rqVars>>
  \/ item_starts /\ UNCHANGED <<rlVars, page, fetch_pc, prVars>>
  \/ item_concludes /\ UNCHANGED <<rlVars, page, fetch_pc, prVars>>
  \/ clean_command /\ UNCHANGED <<rlVars, exVars, prVars>>
  \/ relay_summarize /\ UNCHANGED <<rlVars, page, fetch_pc, prVars, rqVars>>

SpecClean == InitRelay /\ [][NextClean]_vars

\* How many of the first p steps are s.
StepsBefore(p, s) == Cardinality({q \in 1..p : steps[q] = s})

\* The items (1-based) whose fetch was awaited when /clean ran.
CleanedInFlight ==
  { StepsBefore(p, "fetch_start") : p \in
      { q \in 1..Len(steps) :
          /\ steps[q] = "clean"
          /\ StepsBefore(q, "fetch_start") = StepsBefore(q, "fetch_end") + 1 } }

====
